---- MODULE Spec2Model ----
(***************************************************************************)
(* GestionMonitoreo: incident / equipment-status reconciliation.           *)
(*                                                                         *)
(* The state is the tables that the bus, document and incident routes      *)
(* touch (buses, incidents, equipment_status, bus_documents), the wall     *)
(* clock read by `new Date()`, the uuid generators of the tables whose ids *)
(* are drawn by the database, and the HTTP request being served.  The      *)
(* dashboard, the reports and the camera grid are queries over that state. *)
(*                                                                         *)
(* The unit of action is one call of a DatabaseStorage method from a route *)
(* of src/server/routes.ts.  POST /api/incidents awaits createIncident once *)
(* per selected channel, so a fan-out request is a PostIncidents step      *)
(* followed by PostIncidentsNext steps.  Under Spec requests are served    *)
(* one at a time: no request starts while another is in flight.            *)
(***************************************************************************)
EXTENDS Integers, Sequences, FiniteSets, TLC

VARIABLES buses, incidents, equipmentStatus, busDocuments, now, nextBusId,
          nextIncidentId, nextDocumentId, http

vars == <<buses, incidents, equipmentStatus, busDocuments, now, nextBusId,
          nextIncidentId, nextDocumentId, http>>
db == <<buses, incidents, equipmentStatus, busDocuments, nextBusId, nextIncidentId,
        nextDocumentId>>

----------------------------------------------------------------------------
(* Bounds of the model. *)

MaxBuses == 2          \* bus ids the database ever generates
MaxIncidents == 2      \* incident ids the database ever generates
MaxTime == 2           \* distinct clock readings
MaxChannels == 2       \* length of a request's cameraChannels list
MaxDocuments == 2      \* document ids the database ever generates
MaxInFlight == 2       \* requests served at the same time
SlotsPerDay == 2       \* clock readings in a day

----------------------------------------------------------------------------
(* Values. *)

NULL == "<null>"            \* SQL NULL in a text column
ABSENT == "<undefined>"     \* a key the request body does not carry
NoIncident == 0             \* SQL NULL in last_incident_id
NoTime == 0                 \* SQL NULL in a timestamp column
NoChannels == <<ABSENT>>    \* a request body without the cameraChannels key

EquipmentTypes == {"camera", "dvr", "gps", "hard_drive", "cable"}
IncidentTypes == {"misaligned", "loose_cable", "faulty", "replacement"}
IncidentStatuses == {"pending", "in_progress", "resolved"}

\* a seeding that stops at ch3
Channels_Three == <<"ch1", "ch2", "ch3">>

Channels == <<"ch1", "ch2", "ch3", "ch4">>

(* Inputs the requests are drawn from. *)
BusIds == 1..MaxBuses          \* the ids the database issues to buses, in order
UnknownBus == 0                \* a bus id the database never issues
BusIdInputs == BusIds \cup {UnknownBus}
IncidentIds == 1..MaxIncidents
ChannelInputs == {"ch1", "ch3", "ch9", ""}

\* every list of at most MaxChannels of the given channels, and the missing key
ChannelLists(channels) ==
    UNION {[1..n -> channels] : n \in 0..MaxChannels} \cup {NoChannels}

\* request bodies of POST /api/incidents
Forms(equipmentTypes, incidentTypes, lists) ==
    [busId : BusIdInputs, equipmentType : equipmentTypes, incidentType : incidentTypes,
     cameraChannels : lists, description : {"lente sucio"}, reporter : {ABSENT}]

\* request bodies of PATCH /api/incidents/:id; the dashboard sends the notes
\* together with status = resolved
Updates(statuses) ==
    [status : statuses \ {"resolved"}, resolutionNotes : {ABSENT}]
    \cup [status : statuses \cap {"resolved"}, resolutionNotes : {"ajustada"}]

----------------------------------------------------------------------------
(* Helpers. *)

\* JavaScript `v || null` on an optional string
OrNull(v) == IF v \in {ABSENT, "", NULL} THEN NULL ELSE v

\* JavaScript truthiness of an optional string
Truthy(v) == v \notin {ABSENT, "", NULL}

\* the POST /api/incidents request being served (code 0), with its locals, or
\* the status code of the last response sent
Response(code) ==
    [code |-> code, form |-> ABSENT, todo |-> <<>>, createdIncidents |-> <<>>]

\* a form validation that reads the equipment type only
IncidentFormValid_EquipmentOnly(form) == form.equipmentType \in EquipmentTypes

\* incidentFormSchema.safeParse: the two enums; every other field is free
IncidentFormValid(form) ==
    /\ form.equipmentType \in EquipmentTypes
    /\ form.incidentType \in IncidentTypes

\* the PATCH route's updateSchema.safeParse: status is optional, of the enum
UpdateValid(updates) == updates.status \in IncidentStatuses \cup {ABSENT}

\* a lookup by bus alone
StatusRows_AnyChannel(busId, channel) == {s \in equipmentStatus : s.busId = busId}

\* the rows `select().from(equipmentStatus).where(and(busId, cameraChannel))` returns
StatusRows(busId, channel) ==
    {s \in equipmentStatus : s.busId = busId /\ s.cameraChannel = channel}

\* a projection that takes a replacement for a fault
ProjectedStatus_ReplacementFaulty(incidentType) ==
    IF incidentType \in {"faulty", "replacement"} THEN "faulty" ELSE "misaligned"

\* the status a camera incident of the given type projects
ProjectedStatus(incidentType) == IF incidentType = "faulty" THEN "faulty" ELSE "misaligned"

----------------------------------------------------------------------------
(* DatabaseStorage *)

Init ==
    /\ buses = {}
    /\ incidents = {}
    /\ equipmentStatus = {}
    /\ busDocuments = {}
    /\ now = 1
    /\ nextBusId = 1
    /\ nextIncidentId = 1
    /\ nextDocumentId = 1
    /\ http = Response(200)

\* createBus: ret is "bus" or "throw" (unique violation on bus_number)
createBus(insertBus, ret) ==
    IF \E b \in buses : b.busNumber = insertBus.busNumber
    THEN /\ ret = "throw"
         /\ UNCHANGED db
    ELSE /\ ret = "bus"
         /\ nextBusId <= MaxBuses
         /\ buses' = buses \cup {[id |-> nextBusId, busNumber |-> insertBus.busNumber]}
         /\ equipmentStatus' = equipmentStatus \cup
                {[id |-> <<nextBusId, k>>, busId |-> nextBusId, equipmentType |-> "camera",
                  cameraChannel |-> Channels[k], status |-> "operational",
                  lastIncidentId |-> NoIncident, updatedAt |-> now] : k \in DOMAIN Channels}
         /\ nextBusId' = nextBusId + 1
         /\ UNCHANGED <<incidents, busDocuments, nextIncidentId, nextDocumentId>>

\* createBus rejected at its statement `step`: 1 is the insert of the bus,
\* k + 1 the insert of the row of Channels[k]; the inserts before it stay
createBusFails(insertBus, step) ==
    /\ step \in 1..(Len(Channels) + 1)
    /\ IF step = 1
       THEN UNCHANGED db
       ELSE /\ \A b \in buses : b.busNumber /= insertBus.busNumber
            /\ nextBusId <= MaxBuses
            /\ buses' = buses \cup {[id |-> nextBusId, busNumber |-> insertBus.busNumber]}
            /\ equipmentStatus' = equipmentStatus \cup
                   {[id |-> <<nextBusId, k>>, busId |-> nextBusId,
                     equipmentType |-> "camera", cameraChannel |-> Channels[k],
                     status |-> "operational", lastIncidentId |-> NoIncident,
                     updatedAt |-> now] : k \in 1..(step - 2)}
            /\ nextBusId' = nextBusId + 1
            /\ UNCHANGED <<incidents, busDocuments, nextIncidentId, nextDocumentId>>

\* a deleteBus that leaves the incidents of the bus
deleteBus_KeepsIncidents(id, ret) ==
    /\ busDocuments' = {d \in busDocuments : d.busId /= id}
    /\ equipmentStatus' = {s \in equipmentStatus : s.busId /= id}
    /\ buses' = {b \in buses : b.id /= id}
    /\ ret = (\E b \in buses : b.id = id)
    /\ UNCHANGED <<incidents, nextBusId, nextIncidentId, nextDocumentId>>

\* deleteBus: ret is the boolean the method returns
deleteBus(id, ret) ==
    /\ busDocuments' = {d \in busDocuments : d.busId /= id}
    /\ equipmentStatus' = {s \in equipmentStatus : s.busId /= id}
    /\ incidents' = {i \in incidents : i.busId /= id}
    /\ buses' = {b \in buses : b.id /= id}
    /\ ret = (\E b \in buses : b.id = id)
    /\ UNCHANGED <<nextBusId, nextIncidentId, nextDocumentId>>

\* createBusDocument: inserts the document row
createBusDocument(doc) ==
    /\ nextDocumentId <= MaxDocuments
    /\ busDocuments' = busDocuments \cup
           {[id |-> nextDocumentId, busId |-> doc.busId, docType |-> doc.docType,
             expiresAt |-> doc.expiresAt]}
    /\ nextDocumentId' = nextDocumentId + 1
    /\ UNCHANGED <<buses, incidents, equipmentStatus, nextBusId, nextIncidentId>>

\* deleteBusDocument: ret is whether a row was deleted
deleteBusDocument(docId, ret) ==
    /\ busDocuments' = {d \in busDocuments : d.id /= docId}
    /\ ret = (\E d \in busDocuments : d.id = docId)
    /\ UNCHANGED <<buses, incidents, equipmentStatus, nextBusId, nextIncidentId,
                   nextDocumentId>>

\* the guard of both projections: a camera incident that carries a channel
Projects(equipmentType, cameraChannel) ==
    equipmentType = "camera" /\ Truthy(cameraChannel)

\* a projection that leaves the back-reference as it was
ProjectRow_KeepsLast(existing, incident) ==
    [existing EXCEPT !.status = ProjectedStatus(incident.incidentType),
                     !.updatedAt = now]

\* the row createIncident writes over `existing` for the incident it inserted
ProjectRow(existing, incident) ==
    [existing EXCEPT !.status = ProjectedStatus(incident.incidentType),
                     !.lastIncidentId = incident.id,
                     !.updatedAt = now]

\* a createIncident that projects every incident on a row of its bus
createIncident_EveryIncident(insertIncident) ==
    LET incident == [id |-> nextIncidentId,
                     busId |-> insertIncident.busId,
                     equipmentType |-> insertIncident.equipmentType,
                     incidentType |-> insertIncident.incidentType,
                     cameraChannel |-> OrNull(insertIncident.cameraChannel),
                     status |-> insertIncident.status,
                     description |-> OrNull(insertIncident.description),
                     resolutionNotes |-> OrNull(insertIncident.resolutionNotes),
                     reportedAt |-> now,
                     resolvedAt |-> NoTime,
                     reporter |-> OrNull(insertIncident.reporter)]
        found == {s \in equipmentStatus : s.busId = insertIncident.busId}
    IN  /\ nextIncidentId <= MaxIncidents
        /\ incidents' = incidents \cup {incident}
        /\ nextIncidentId' = nextIncidentId + 1
        /\ IF found /= {}
           THEN \E existing \in found :
                  equipmentStatus' =
                      (equipmentStatus \ {existing}) \cup {ProjectRow(existing, incident)}
           ELSE UNCHANGED equipmentStatus
        /\ UNCHANGED <<buses, busDocuments, nextBusId, nextDocumentId>>

\* a createIncident that inserts the row it does not find
createIncident_Upserts(insertIncident) ==
    LET incident == [id |-> nextIncidentId,
                     busId |-> insertIncident.busId,
                     equipmentType |-> insertIncident.equipmentType,
                     incidentType |-> insertIncident.incidentType,
                     cameraChannel |-> OrNull(insertIncident.cameraChannel),
                     status |-> insertIncident.status,
                     description |-> OrNull(insertIncident.description),
                     resolutionNotes |-> OrNull(insertIncident.resolutionNotes),
                     reportedAt |-> now,
                     resolvedAt |-> NoTime,
                     reporter |-> OrNull(insertIncident.reporter)]
        found == StatusRows(insertIncident.busId, insertIncident.cameraChannel)
    IN  /\ nextIncidentId <= MaxIncidents
        /\ incidents' = incidents \cup {incident}
        /\ nextIncidentId' = nextIncidentId + 1
        /\ IF Projects(insertIncident.equipmentType, insertIncident.cameraChannel)
              /\ found /= {}
           THEN \E existing \in found :
                  equipmentStatus' =
                      (equipmentStatus \ {existing}) \cup {ProjectRow(existing, incident)}
           ELSE IF Projects(insertIncident.equipmentType, insertIncident.cameraChannel)
           THEN equipmentStatus' = equipmentStatus \cup
                    {[id |-> <<insertIncident.busId, insertIncident.cameraChannel>>,
                      busId |-> insertIncident.busId, equipmentType |-> "camera",
                      cameraChannel |-> insertIncident.cameraChannel,
                      status |-> ProjectedStatus(insertIncident.incidentType),
                      lastIncidentId |-> nextIncidentId, updatedAt |-> now]}
           ELSE UNCHANGED equipmentStatus
        /\ UNCHANGED <<buses, busDocuments, nextBusId, nextDocumentId>>

\* createIncident: inserts the row, then projects a camera incident on its channel
createIncident(insertIncident) ==
    LET incident == [id |-> nextIncidentId,
                     busId |-> insertIncident.busId,
                     equipmentType |-> insertIncident.equipmentType,
                     incidentType |-> insertIncident.incidentType,
                     cameraChannel |-> OrNull(insertIncident.cameraChannel),
                     status |-> insertIncident.status,
                     description |-> OrNull(insertIncident.description),
                     resolutionNotes |-> OrNull(insertIncident.resolutionNotes),
                     reportedAt |-> now,
                     resolvedAt |-> NoTime,
                     reporter |-> OrNull(insertIncident.reporter)]
        found == StatusRows(insertIncident.busId, insertIncident.cameraChannel)
    IN  /\ nextIncidentId <= MaxIncidents
        /\ incidents' = incidents \cup {incident}
        /\ nextIncidentId' = nextIncidentId + 1
        /\ IF Projects(insertIncident.equipmentType, insertIncident.cameraChannel)
              /\ found /= {}
           THEN \E existing \in found :
                  equipmentStatus' =
                      (equipmentStatus \ {existing}) \cup {ProjectRow(existing, incident)}
           ELSE UNCHANGED equipmentStatus
        /\ UNCHANGED <<buses, busDocuments, nextBusId, nextDocumentId>>

\* a guard that takes only the update of a pending incident for a resolution
Resolving_FromPending(updates, current) ==
    updates.status = "resolved" /\ current.status = "pending"

\* a guard that takes every update to status = resolved for a resolution
Resolving_EveryTime(updates, current) == updates.status = "resolved"

\* the guard of the resolution: the first update to status = resolved
Resolving(updates, current) ==
    updates.status = "resolved" /\ current.resolvedAt = NoTime

\* a reset that refreshes updatedAt and forgets the status
ResetRow_KeepsStatus(existing, current) == [existing EXCEPT !.updatedAt = now]

\* a reset that counts the open incidents of the channel
ResetRow_Counted(existing, current) ==
    IF \E j \in incidents :
         /\ j.id /= current.id /\ j.status /= "resolved"
         /\ j.busId = current.busId /\ j.cameraChannel = current.cameraChannel
    THEN [existing EXCEPT !.updatedAt = now]
    ELSE [existing EXCEPT !.status = "operational", !.updatedAt = now]

\* a reset that clears the back-reference
ResetRow_ClearsLast(existing, current) ==
    [existing EXCEPT !.status = "operational", !.lastIncidentId = NoIncident,
                     !.updatedAt = now]

\* the row updateIncident writes over `existing` when it resolves `current`
ResetRow(existing, current) ==
    [existing EXCEPT !.status = "operational", !.updatedAt = now]

\* the incident row after `.set(resolveUpdate)`: the keys the body carries, and
\* resolvedAt when resolving
ApplyUpdates(current, updates) ==
    [current EXCEPT
       !.status = IF updates.status = ABSENT THEN @ ELSE updates.status,
       !.resolutionNotes = IF updates.resolutionNotes = ABSENT THEN @
                           ELSE updates.resolutionNotes,
       !.resolvedAt = IF Resolving(updates, current) THEN now ELSE @]

\* an updateIncident that rejects a resolution whose channel has no row
updateIncident_RequiresRow(id, updates, ret) ==
    LET rows == {i \in incidents : i.id = id} IN
    IF rows = {}
    THEN /\ ret = "undefined"
         /\ UNCHANGED db
    ELSE \E current \in rows :
         LET found == StatusRows(current.busId, current.cameraChannel)
         IN  IF /\ Resolving(updates, current)
                /\ Projects(current.equipmentType, current.cameraChannel)
                /\ found = {}
             THEN ret = "throw" /\ UNCHANGED db
             ELSE
             /\ IF Resolving(updates, current)
                   /\ Projects(current.equipmentType, current.cameraChannel)
                   /\ found /= {}
                THEN \E existing \in found :
                       equipmentStatus' =
                           (equipmentStatus \ {existing}) \cup {ResetRow(existing, current)}
                ELSE UNCHANGED equipmentStatus
             /\ IF updates.status = ABSENT /\ updates.resolutionNotes = ABSENT
                THEN /\ ret = "throw"
                     /\ UNCHANGED incidents
                ELSE /\ ret = "updated"
                     /\ incidents' = (incidents \ {current}) \cup {ApplyUpdates(current, updates)}
             /\ UNCHANGED <<buses, busDocuments, nextBusId, nextIncidentId, nextDocumentId>>

\* updateIncident: ret is "undefined" (no such row), "throw" (nothing to set) or "updated"
updateIncident(id, updates, ret) ==
    LET rows == {i \in incidents : i.id = id} IN
    IF rows = {}
    THEN /\ ret = "undefined"
         /\ UNCHANGED db
    ELSE \E current \in rows :
         LET found == StatusRows(current.busId, current.cameraChannel)
         IN  /\ IF Resolving(updates, current)
                   /\ Projects(current.equipmentType, current.cameraChannel)
                   /\ found /= {}
                THEN \E existing \in found :
                       equipmentStatus' =
                           (equipmentStatus \ {existing}) \cup {ResetRow(existing, current)}
                ELSE UNCHANGED equipmentStatus
             /\ IF updates.status = ABSENT /\ updates.resolutionNotes = ABSENT
                THEN /\ ret = "throw"
                     /\ UNCHANGED incidents
                ELSE /\ ret = "updated"
                     /\ incidents' = (incidents \ {current}) \cup {ApplyUpdates(current, updates)}
             /\ UNCHANGED <<buses, busDocuments, nextBusId, nextIncidentId, nextDocumentId>>

\* the statements of createIncident, in the order it awaits them
CreateSteps == <<"insert incident", "select status", "update status">>

\* createIncident rejected at its statement `step`: the statements before it
\* are committed one by one, none is rolled back
createIncidentFails(insertIncident, step) ==
    LET incident == [id |-> nextIncidentId,
                     busId |-> insertIncident.busId,
                     equipmentType |-> insertIncident.equipmentType,
                     incidentType |-> insertIncident.incidentType,
                     cameraChannel |-> OrNull(insertIncident.cameraChannel),
                     status |-> insertIncident.status,
                     description |-> OrNull(insertIncident.description),
                     resolutionNotes |-> OrNull(insertIncident.resolutionNotes),
                     reportedAt |-> now,
                     resolvedAt |-> NoTime,
                     reporter |-> OrNull(insertIncident.reporter)]
        found == StatusRows(insertIncident.busId, insertIncident.cameraChannel)
    IN  /\ step \in {CreateSteps[k] : k \in DOMAIN CreateSteps}
        /\ IF step = "insert incident"
           THEN UNCHANGED db
           ELSE /\ Projects(insertIncident.equipmentType, insertIncident.cameraChannel)
                /\ step = "update status" => found /= {}
                /\ nextIncidentId <= MaxIncidents
                /\ incidents' = incidents \cup {incident}
                /\ nextIncidentId' = nextIncidentId + 1
                /\ UNCHANGED <<buses, equipmentStatus, busDocuments, nextBusId,
                               nextDocumentId>>

\* the statements of updateIncident, in the order it awaits them
UpdateSteps == <<"select incident", "select status", "update status", "update incident">>

\* updateIncident rejected at its statement `step`
updateIncidentFails(id, updates, step) ==
    LET rows == {i \in incidents : i.id = id} IN
    /\ step \in {UpdateSteps[k] : k \in DOMAIN UpdateSteps}
    /\ IF step = "select incident"
       THEN UNCHANGED db
       ELSE \E current \in rows :
            LET found == StatusRows(current.busId, current.cameraChannel)
                projecting == /\ Resolving(updates, current)
                              /\ Projects(current.equipmentType, current.cameraChannel)
            IN  /\ step = "select status" => projecting
                /\ step = "update status" => projecting /\ found /= {}
                /\ IF step = "update incident" /\ projecting /\ found /= {}
                   THEN \E existing \in found :
                          equipmentStatus' =
                              (equipmentStatus \ {existing}) \cup {ResetRow(existing, current)}
                   ELSE UNCHANGED equipmentStatus
                /\ UNCHANGED <<buses, incidents, busDocuments, nextBusId, nextIncidentId,
                               nextDocumentId>>

----------------------------------------------------------------------------
(* Queries.  A query reads the tables and changes nothing; where the rows   *)
(* it reads come in no stated order, it has one result per order.           *)

\* the channels getCameraStatus maps over
CameraChannels == <<"ch1", "ch2", "ch3", "ch4">>

\* a lookup of the first camera row of the bus, whatever its channel
CameraRows_AnyChannel(busId, channel) ==
    {s \in equipmentStatus : s.equipmentType = "camera" /\ s.busId = busId}

\* the rows among which `busStatuses.find(s => s.cameraChannel === channel)`
\* returns the first
CameraRows(busId, channel) ==
    {s \in equipmentStatus :
       s.equipmentType = "camera" /\ s.busId = busId /\ s.cameraChannel = channel}

\* { channel, status: status?.status || "operational" }, for each row `find`
\* may return
CameraEntries(busId, channel) ==
    IF CameraRows(busId, channel) = {}
    THEN {[channel |-> channel, status |-> "operational"]}
    ELSE {[channel |-> channel, status |-> s.status] : s \in CameraRows(busId, channel)}

\* the `cameras` arrays getCameraStatus may build for a bus
Cameras(busId) ==
    {cameras \in [DOMAIN CameraChannels ->
                    UNION {CameraEntries(busId, CameraChannels[k]) :
                             k \in DOMAIN CameraChannels}] :
       \A k \in DOMAIN CameraChannels :
         cameras[k] \in CameraEntries(busId, CameraChannels[k])}

\* getCameraStatus: the entries of the array it returns, one per bus
getCameraStatus ==
    UNION {{[busId |-> b.id, busNumber |-> b.busNumber, cameras |-> cameras] :
              cameras \in Cameras(b.id)} : b \in buses}

(* The calendar.  An instant is a number of clock readings since 1 January *)
(* 00:00 of a year that starts on a Thursday; SlotsPerDay readings make a   *)
(* day, the first of them its 00:00:00.000 and the last its 23:59:59.999.   *)
StartOfDay(day) == day * SlotsPerDay
EndOfDay(day) == day * SlotsPerDay + (SlotsPerDay - 1)
DayOf(t) == t \div SlotsPerDay

\* Date.getDay(): 0 is Sunday; day 0 is a Thursday
GetDay(day) == (day + 4) % 7

\* date-fns startOfWeek(date, { weekStartsOn })
startOfWeek(t, weekStartsOn) ==
    StartOfDay(DayOf(t) - ((GetDay(DayOf(t)) + 7 - weekStartsOn) % 7))

\* date-fns endOfWeek(date, { weekStartsOn })
endOfWeek(t, weekStartsOn) == EndOfDay(DayOf(startOfWeek(t, weekStartsOn)) + 6)

\* date-fns getWeek(date) with no options: weeks start on Sunday and week 1
\* is the week of 1 January (dates of the modelled year before its last week)
getWeek(t) == ((DayOf(startOfWeek(t, 0)) - DayOf(startOfWeek(StartOfDay(0), 0))) \div 7) + 1

\* the lengths of the months of the modelled year
MonthLengths == <<31, 28, 31, 30, 31, 30, 31, 31, 30, 31, 30, 31>>

\* the first day of month m (1 is January)
RECURSIVE FirstDayOfMonth(_)
FirstDayOfMonth(m) == IF m = 1 THEN 0 ELSE FirstDayOfMonth(m - 1) + MonthLengths[m - 1]

\* Date.getMonth() + 1 of an instant of the modelled year
MonthOf(t) ==
    CHOOSE m \in DOMAIN MonthLengths :
      /\ FirstDayOfMonth(m) <= DayOf(t)
      /\ DayOf(t) < FirstDayOfMonth(m) + MonthLengths[m]

\* date-fns startOfMonth and endOfMonth
startOfMonth(t) == StartOfDay(FirstDayOfMonth(MonthOf(t)))
endOfMonth(t) == EndOfDay(FirstDayOfMonth(MonthOf(t)) + MonthLengths[MonthOf(t)] - 1)

\* SQL `col >= a AND col <= b` on a nullable timestamp: null compares to nothing
Between(col, a, b) == col /= NoTime /\ a <= col /\ col <= b

\* count(*) ... group by: the groups that exist, each with its count
\* keyOf maps each row to its group
CountBy(keyOf) ==
    [k \in {keyOf[r] : r \in DOMAIN keyOf} |->
       Cardinality({r \in DOMAIN keyOf : keyOf[r] = k})]

\* a dashboard whose pending counter counts every open incident
PendingRepairs_Open == {i \in incidents : i.status /= "resolved"}

\* the incidents `where status = 'pending'` selects
PendingRepairs == {i \in incidents : i.status = "pending"}

\* a resolved-this-week counter that reads the report date
ResolvedThisWeek_Reported ==
    {i \in incidents :
       /\ i.status = "resolved"
       /\ Between(i.reportedAt, startOfWeek(now, 1), endOfWeek(now, 1))}

\* the incidents the resolved-this-week query selects
ResolvedThisWeek ==
    {i \in incidents :
       /\ i.status = "resolved"
       /\ Between(i.resolvedAt, startOfWeek(now, 1), endOfWeek(now, 1))}

\* getDashboardStats
getDashboardStats ==
    [totalBuses |-> Cardinality(buses),
     activeIncidents |-> Cardinality({i \in incidents : i.status /= "resolved"}),
     resolvedThisWeek |-> Cardinality(ResolvedThisWeek),
     pendingRepairs |-> Cardinality(PendingRepairs),
     incidentsByType |->
         CountBy([i \in {j \in incidents : j.status /= "resolved"} |-> i.equipmentType])]

\* a weekly selection over the Sunday-to-Saturday week
WeekIncidents_SundayStart(weekStartDate) ==
    {i \in incidents :
       Between(i.reportedAt, startOfWeek(weekStartDate, 0), endOfWeek(weekStartDate, 0))}

\* the incidents getWeeklyReport selects
WeekIncidents(weekStartDate) ==
    {i \in incidents :
       Between(i.reportedAt, startOfWeek(weekStartDate, 1), endOfWeek(weekStartDate, 1))}

\* getWeeklyReport, but for mostAffectedBuses
getWeeklyReport(weekStartDate) ==
    [weekStart |-> startOfWeek(weekStartDate, 1),
     weekEnd |-> endOfWeek(weekStartDate, 1),
     totalIncidents |-> Cardinality(WeekIncidents(weekStartDate)),
     resolvedIncidents |->
         Cardinality({i \in WeekIncidents(weekStartDate) : i.status = "resolved"}),
     incidentsByType |->
         CountBy([i \in WeekIncidents(weekStartDate) |-> i.incidentType]),
     incidentsByEquipment |->
         CountBy([i \in WeekIncidents(weekStartDate) |-> i.equipmentType])]

\* the incidents getMonthlyReport selects
MonthIncidents(monthStartDate) ==
    {i \in incidents :
       Between(i.reportedAt, startOfMonth(monthStartDate), endOfMonth(monthStartDate))}

\* weeklyTrendMap: the count of the month's incidents per getWeek(reportedAt)
weeklyTrendMap(monthStartDate) ==
    CountBy([i \in {j \in MonthIncidents(monthStartDate) : j.reportedAt /= NoTime}
               |-> getWeek(i.reportedAt)])

\* Object.entries(map).map(...).sort((a, b) => a.week - b.week)
RECURSIVE SortedTrend(_)
SortedTrend(map) ==
    IF DOMAIN map = {} THEN <<>>
    ELSE LET week == CHOOSE w \in DOMAIN map : \A v \in DOMAIN map : w <= v
         IN  <<[week |-> week, count |-> map[week]]>>
             \o SortedTrend([v \in DOMAIN map \ {week} |-> map[v]])

\* getMonthlyReport, but for mostAffectedBuses and the month's name
getMonthlyReport(monthStartDate) ==
    [totalIncidents |-> Cardinality(MonthIncidents(monthStartDate)),
     resolvedIncidents |->
         Cardinality({i \in MonthIncidents(monthStartDate) : i.status = "resolved"}),
     incidentsByType |->
         CountBy([i \in MonthIncidents(monthStartDate) |-> i.incidentType]),
     incidentsByEquipment |->
         CountBy([i \in MonthIncidents(monthStartDate) |-> i.equipmentType]),
     weeklyTrend |-> SortedTrend(weeklyTrendMap(monthStartDate))]


\* Math.ceil(a / b) for a divisor b > 0
Ceil(a, b) == -((-a) \div b)

\* the alert threshold of each document type, in days; the scan skips a
\* document of any other type
alertDays ==
    [revision_tecnica |-> 5, licencia_conducir |-> 30, cedula_conductor |-> 30]

\* busMap[doc.busId] || doc.busId: the number of the bus, else the text of
\* the bus id
BusNumberOf(busId) ==
    IF \E b \in buses : b.id = busId /\ b.busNumber /= ""
    THEN (CHOOSE b \in buses : b.id = busId).busNumber
    ELSE ToString(busId)

\* the entry the scan pushes for a document at the clock reading `at`, but
\* for fileName and driverName
ExpiringEntry(doc, at) ==
    [busNumber |-> BusNumberOf(doc.busId), docType |-> doc.docType,
     expiresAt |-> doc.expiresAt,
     daysLeft |-> Ceil(doc.expiresAt - at, SlotsPerDay)]

\* whether the loop of the scan pushes an entry for the document
Alerts_AnyType(doc, at) ==
    /\ doc.expiresAt /= NoTime
    /\ ExpiringEntry(doc, at).daysLeft <= 30

Alerts(doc, at) ==
    /\ doc.expiresAt /= NoTime
    /\ doc.docType \in DOMAIN alertDays
    /\ ExpiringEntry(doc, at).daysLeft <= alertDays[doc.docType]

\* results.sort((a, b) => a.daysLeft - b.daysLeft): a stable sort
RECURSIVE SortByDaysLeft(_)
SortByDaysLeft(results) ==
    IF results = <<>> THEN <<>>
    ELSE LET sorted == SortByDaysLeft(SubSeq(results, 1, Len(results) - 1))
             last == results[Len(results)]
             kept == {k \in DOMAIN sorted : sorted[k].daysLeft <= last.daysLeft}
         IN  SubSeq(sorted, 1, Cardinality(kept)) \o <<last>>
             \o SubSeq(sorted, Cardinality(kept) + 1, Len(sorted))

\* the orders in which a select without ORDER BY may return the rows
RowOrders(rows) ==
    {order \in [1..Cardinality(rows) -> rows] :
       \A r \in rows : \E k \in DOMAIN order : order[k] = r}

\* select ... from bus_documents where expires_at IS NOT NULL
ExpiringRows == {d \in busDocuments : d.expiresAt /= NoTime}

\* getExpiringDocuments over the rows as the select returned them, with the
\* clock reading `at`
RECURSIVE Pushed(_, _)
Pushed(allDocs, at) ==
    IF allDocs = <<>> THEN <<>>
    ELSE (IF Alerts(Head(allDocs), at) THEN <<ExpiringEntry(Head(allDocs), at)>>
          ELSE <<>>) \o Pushed(Tail(allDocs), at)

getExpiringDocuments(allDocs, at) == SortByDaysLeft(Pushed(allDocs, at))

(* Bus numbers as text.  Where a query reads the characters of a bus number, *)
(* the number is the sequence of its characters.                            *)
\* the characters of the modelled bus numbers, in the order of the collation
Collation == <<"0", "1", "2", "3", "4", "5", "6", "7", "8", "9", "A">>
DigitChars == {Collation[k] : k \in 1..10}
Rank(c) == CHOOSE k \in DOMAIN Collation : Collation[k] = c

\* busNumber ~ '^[0-9]+$'
IsAllDigits(busNumber) ==
    busNumber /= <<>> /\ \A k \in DOMAIN busNumber : busNumber[k] \in DigitChars

\* the number the digits denote
RECURSIVE DigitsValue(_)
DigitsValue(busNumber) ==
    IF busNumber = <<>> THEN 0
    ELSE 10 * DigitsValue(SubSeq(busNumber, 1, Len(busNumber) - 1))
         + (Rank(busNumber[Len(busNumber)]) - 1)

\* the digits without their leading zeros
RECURSIVE Significant(_)
Significant(busNumber) ==
    IF busNumber /= <<>> /\ Head(busNumber) = "0" THEN Significant(Tail(busNumber))
    ELSE busNumber

\* the largest value of the SQL type INTEGER, as its digits
MaxIntegerDigits == <<"2", "1", "4", "7", "4", "8", "3", "6", "4", "7">>

\* CAST(busNumber AS INTEGER) raises an error beyond the range of INTEGER
CastFails(busNumber) ==
    /\ IsAllDigits(busNumber)
    /\ \/ Len(Significant(busNumber)) > Len(MaxIntegerDigits)
       \/ /\ Len(Significant(busNumber)) = Len(MaxIntegerDigits)
          /\ \E k \in DOMAIN MaxIntegerDigits :
               /\ Rank(Significant(busNumber)[k]) > Rank(MaxIntegerDigits[k])
               /\ \A j \in 1..(k - 1) : Significant(busNumber)[j] = MaxIntegerDigits[j]

\* the first ORDER BY key of getBuses
BusSortKey(busNumber) ==
    IF IsAllDigits(busNumber) THEN DigitsValue(busNumber) ELSE 999999

\* a < b on text
RECURSIVE TextLess(_, _)
TextLess(a, b) ==
    IF a = <<>> THEN b /= <<>>
    ELSE IF b = <<>> THEN FALSE
    ELSE IF Head(a) = Head(b) THEN TextLess(Tail(a), Tail(b))
    ELSE Rank(Head(a)) < Rank(Head(b))

\* ORDER BY CASE ... END, bus_number
OrderedBefore(a, b) ==
    \/ BusSortKey(a.busNumber) < BusSortKey(b.busNumber)
    \/ /\ BusSortKey(a.busNumber) = BusSortKey(b.busNumber)
       /\ TextLess(a.busNumber, b.busNumber)

\* the query of getBuses fails when the cast of a bus number does
getBusesThrows == \E b \in buses : CastFails(b.busNumber)

\* getBuses: the buses in the order of the query
getBuses ==
    CHOOSE order \in RowOrders(buses) :
      \A k, l \in DOMAIN order : k < l => OrderedBefore(order[k], order[l])

(* Years.  The year of day 0 is 2026; the calendar reaches a few years to   *)
(* either side of it.                                                       *)
CalendarYears == 2021..2030
DaysInYear(y) == IF y % 4 = 0 /\ (y % 100 /= 0 \/ y % 400 = 0) THEN 366 ELSE 365

\* new Date(y, 0, 1), as a day
RECURSIVE FirstDayOfYear(_)
FirstDayOfYear(y) ==
    IF y = 2026 THEN 0
    ELSE IF y > 2026 THEN FirstDayOfYear(y - 1) + DaysInYear(y - 1)
    ELSE FirstDayOfYear(y + 1) - DaysInYear(y)

\* Date.getFullYear()
getFullYear(t) ==
    CHOOSE y \in CalendarYears :
      FirstDayOfYear(y) <= DayOf(t) /\ DayOf(t) < FirstDayOfYear(y + 1)

\* date-fns getWeekYear(date) with the options of the default locale: weeks
\* start on Sunday and week 1 of a year is the week of its 1 January
getWeekYear(t) ==
    IF t >= startOfWeek(StartOfDay(FirstDayOfYear(getFullYear(t) + 1)), 0)
    THEN getFullYear(t) + 1
    ELSE IF t >= startOfWeek(StartOfDay(FirstDayOfYear(getFullYear(t))), 0)
    THEN getFullYear(t)
    ELSE getFullYear(t) - 1

\* the format token `ww` before padding: date-fns getWeek(date) of any year
LocalWeek(t) ==
    ((DayOf(startOfWeek(t, 0))
      - DayOf(startOfWeek(StartOfDay(FirstDayOfYear(getWeekYear(t))), 0))) \div 7) + 1

\* the last `width` decimal digits of n, as text
RECURSIVE ZeroPadded(_, _)
ZeroPadded(n, width) ==
    IF width = 0 THEN <<>>
    ELSE ZeroPadded(n \div 10, width - 1) \o <<Collation[(n % 10) + 1]>>

\* the weekly-report page: format(startOfWeek(currentDate, { weekStartsOn: 1 }),
\* "yyyy-'W'ww")
weekParam(currentDate) ==
    ZeroPadded(getFullYear(startOfWeek(currentDate, 1)), 4) \o <<"-", "W">>
    \o ZeroPadded(LocalWeek(startOfWeek(currentDate, 1)), 2)

\* week.split("-W"): the text before the first "-W" and the text after it
SplitWeek(week) ==
    LET k == CHOOSE k \in 1..(Len(week) - 1) :
               /\ week[k] = "-" /\ week[k + 1] = "W"
               /\ \A j \in 1..(k - 1) : ~(week[j] = "-" /\ week[j + 1] = "W")
    IN  <<SubSeq(week, 1, k - 1), SubSeq(week, k + 2, Len(week))>>

\* parseInt(text) of a text that starts with a digit: the value of its digits
\* up to the first character that is not one
parseInt(text) ==
    LET n == CHOOSE n \in 0..Len(text) :
               /\ \A j \in 1..n : text[j] \in DigitChars
               /\ n < Len(text) => text[n + 1] \notin DigitChars
    IN  DigitsValue(SubSeq(text, 1, n))

\* the date GET /api/reports/weekly decodes from its week parameter
weekStart(week) ==
    startOfWeek(StartOfDay(FirstDayOfYear(parseInt(SplitWeek(week)[1]))
                           + (parseInt(SplitWeek(week)[2]) - 1) * 7), 1)

----------------------------------------------------------------------------
(* Routes *)

\* no request is being served
Ready == http.code /= 0

\* a fan-out that stops after the first selected channel
FanOut_FirstOnly(form) ==
    IF form.equipmentType = "camera" /\ form.cameraChannels /= NoChannels
       /\ Len(form.cameraChannels) > 0
    THEN <<Head(form.cameraChannels)>>
    ELSE <<ABSENT>>

\* the channels POST /api/incidents calls createIncident for, in order; one
\* call without a channel when the request is not a camera fan-out
FanOut(form) ==
    IF form.equipmentType = "camera" /\ form.cameraChannels /= NoChannels
       /\ Len(form.cameraChannels) > 0
    THEN form.cameraChannels
    ELSE <<ABSENT>>

\* { ...restData, cameraChannel: channel, status: "pending" }
InsertIncident(form, channel) ==
    [busId |-> form.busId, equipmentType |-> form.equipmentType,
     incidentType |-> form.incidentType, cameraChannel |-> channel, status |-> "pending",
     description |-> form.description, reporter |-> form.reporter,
     resolutionNotes |-> ABSENT]

\* POST /api/incidents, up to the return of its first createIncident call
PostIncidents(form) ==
    /\ Ready
    /\ IF ~IncidentFormValid(form)
       THEN /\ http' = Response(400)
            /\ UNCHANGED db
       ELSE /\ nextIncidentId + Len(FanOut(form)) - 1 <= MaxIncidents
            /\ createIncident(InsertIncident(form, Head(FanOut(form))))
            /\ http' = [code |-> IF Len(FanOut(form)) = 1 THEN 201 ELSE 0,
                        form |-> form,
                        todo |-> Tail(FanOut(form)),
                        createdIncidents |-> <<nextIncidentId>>]
    /\ UNCHANGED now

\* POST /api/incidents, the next iteration of its loop over cameraChannels
PostIncidentsNext ==
    /\ http.code = 0
    /\ createIncident(InsertIncident(http.form, Head(http.todo)))
    /\ http' = [http EXCEPT !.code = IF Len(http.todo) = 1 THEN 201 ELSE 0,
                            !.todo = Tail(http.todo),
                            !.createdIncidents = Append(@, nextIncidentId)]
    /\ UNCHANGED now

\* a PATCH route that answers with whatever updateIncident returned
PatchIncident_NoNotFound(id, updates) ==
    /\ Ready
    /\ IF ~UpdateValid(updates)
       THEN /\ http' = Response(400)
            /\ UNCHANGED db
       ELSE \E ret \in {"undefined", "throw", "updated"} :
            /\ updateIncident(id, updates, ret)
            /\ http' = Response(CASE ret = "undefined" -> 200
                                  [] ret = "throw" -> 500
                                  [] OTHER -> 200)
    /\ UNCHANGED now

\* PATCH /api/incidents/:id
PatchIncident(id, updates) ==
    /\ Ready
    /\ IF ~UpdateValid(updates)
       THEN /\ http' = Response(400)
            /\ UNCHANGED db
       ELSE \E ret \in {"undefined", "throw", "updated"} :
            /\ updateIncident(id, updates, ret)
            /\ http' = Response(CASE ret = "undefined" -> 404
                                  [] ret = "throw" -> 500
                                  [] OTHER -> 200)
    /\ UNCHANGED now

\* POST /api/buses
PostBus(busNumber) ==
    /\ Ready
    /\ \E ret \in {"bus", "throw"} :
         /\ createBus([busNumber |-> busNumber], ret)
         /\ http' = Response(IF ret = "bus" THEN 201 ELSE 500)
    /\ UNCHANGED now

\* DELETE /api/buses/:id
DeleteBus(id) ==
    /\ Ready
    /\ \E ret \in BOOLEAN :
         /\ deleteBus(id, ret)
         /\ http' = Response(IF ret THEN 200 ELSE 404)
    /\ UNCHANGED now

\* POST /api/buses whose createBus call rejects: the catch block answers 500
PostBusFails(busNumber, step) ==
    /\ Ready
    /\ createBusFails([busNumber |-> busNumber], step)
    /\ http' = Response(500)
    /\ UNCHANGED now

\* POST /api/incidents whose first createIncident call rejects: the catch
\* block answers 500
PostIncidentsFails(form, step) ==
    /\ Ready
    /\ IncidentFormValid(form)
    /\ createIncidentFails(InsertIncident(form, Head(FanOut(form))), step)
    /\ http' = Response(500)
    /\ UNCHANGED now

\* POST /api/incidents whose loop meets a createIncident call that rejects
PostIncidentsNextFails(step) ==
    /\ http.code = 0
    /\ createIncidentFails(InsertIncident(http.form, Head(http.todo)), step)
    /\ http' = Response(500)
    /\ UNCHANGED now

\* PATCH /api/incidents/:id whose updateIncident call rejects
PatchIncidentFails(id, updates, step) ==
    /\ Ready
    /\ UpdateValid(updates)
    /\ updateIncidentFails(id, updates, step)
    /\ http' = Response(500)
    /\ UNCHANGED now

\* POST /api/buses/:id/documents; body.file is whether a file was uploaded
PostDocument(busId, body) ==
    /\ Ready
    /\ IF ~body.file \/ body.docType = ""
       THEN /\ http' = Response(400)
            /\ UNCHANGED db
       ELSE /\ createBusDocument([busId |-> busId, docType |-> body.docType,
                                  expiresAt |-> body.expiresAt])
            /\ http' = Response(201)
    /\ UNCHANGED now

\* DELETE /api/buses/:busId/documents/:docId
DeleteDocument(docId) ==
    /\ Ready
    /\ \E ret \in BOOLEAN :
         /\ deleteBusDocument(docId, ret)
         /\ http' = Response(IF ret THEN 200 ELSE 404)
    /\ UNCHANGED now

\* a scan that marks what it reports: a reported document is not reported again
GetExpiring_MarksAlerted ==
    /\ Ready
    /\ \E allDocs \in RowOrders(ExpiringRows) :
         http' = [code |-> 200, form |-> ABSENT, todo |-> <<>>,
                  createdIncidents |-> <<>>, at |-> now,
                  expiring |-> getExpiringDocuments(allDocs, now)]
    /\ busDocuments' = {IF Alerts(d, now) THEN [d EXCEPT !.expiresAt = NoTime] ELSE d :
                           d \in busDocuments}
    /\ UNCHANGED <<buses, incidents, equipmentStatus, nextBusId, nextIncidentId,
                   nextDocumentId, now>>

\* GET /api/documents/expiring: the response carries the result of the scan;
\* `at` is the clock reading the scan took
GetExpiring ==
    /\ Ready
    /\ \E allDocs \in RowOrders(ExpiringRows) :
         http' = [code |-> 200, form |-> ABSENT, todo |-> <<>>,
                  createdIncidents |-> <<>>, at |-> now,
                  expiring |-> getExpiringDocuments(allDocs, now)]
    /\ UNCHANGED <<db, now>>

\* GET /api/buses: the response carries the buses in the order of getBuses
GetBuses ==
    /\ Ready
    /\ http' = IF getBusesThrows THEN Response(500)
               ELSE [code |-> 200, form |-> ABSENT, todo |-> <<>>,
                     createdIncidents |-> <<>>, buses |-> getBuses]
    /\ UNCHANGED <<db, now>>

\* GET /api/reports/weekly?week=...: the answer carries the report; the
\* request without a week is for the week of the clock
GetReportsWeekly(week) ==
    /\ Ready
    /\ http' = [code |-> 200, form |-> ABSENT, todo |-> <<>>,
                createdIncidents |-> <<>>, week |-> week,
                report |-> getWeeklyReport(IF week /= <<>> THEN weekStart(week)
                                           ELSE startOfWeek(now, 1))]
    /\ UNCHANGED <<db, now>>

\* time passes between two readings of `new Date()`
Tick ==
    /\ now < MaxTime
    /\ now' = now + 1
    /\ UNCHANGED <<db, http>>

\* days pass between two requests: the clock reads the instant t next
Sleep(t) ==
    /\ now < t
    /\ now' = t
    /\ UNCHANGED <<db, http>>

----------------------------------------------------------------------------
(* Requests in flight together.  Node serves a request up to its next await *)
(* and may then serve another, so a step is one awaited statement of         *)
(* createIncident or updateIncident together with what the method computes   *)
(* on its return.  http.calls holds the requests, each with the locals of    *)
(* its storage call; a request that was answered keeps its record, with      *)
(* pc = "done" and its status code, until its slot serves another request.   *)
Slots == 1..MaxInFlight
Idle == [kind |-> "idle", pc |-> "done"]
Calls == IF "calls" \in DOMAIN http THEN http.calls ELSE [slot \in Slots |-> Idle]

\* the requests `calls`, the last of them answered with `code`
Serving(calls, code) ==
    [code |-> IF \E slot \in Slots : calls[slot].pc /= "done" THEN 0 ELSE code,
     form |-> ABSENT, todo |-> <<>>, createdIncidents |-> <<>>, calls |-> calls]

\* the slot can take a request
Free(slot) == Calls[slot].pc = "done" /\ http.todo = <<>>

\* POST /api/incidents with one createIncident call, up to the return of the
\* insert of the incident
CreateInsert(slot, form) ==
    LET insertIncident == InsertIncident(form, Head(FanOut(form)))
        incident == [id |-> nextIncidentId,
                     busId |-> insertIncident.busId,
                     equipmentType |-> insertIncident.equipmentType,
                     incidentType |-> insertIncident.incidentType,
                     cameraChannel |-> OrNull(insertIncident.cameraChannel),
                     status |-> insertIncident.status,
                     description |-> OrNull(insertIncident.description),
                     resolutionNotes |-> OrNull(insertIncident.resolutionNotes),
                     reportedAt |-> now,
                     resolvedAt |-> NoTime,
                     reporter |-> OrNull(insertIncident.reporter)]
    IN  /\ Free(slot)
        /\ IncidentFormValid(form) /\ Len(FanOut(form)) = 1
        /\ nextIncidentId <= MaxIncidents
        /\ incidents' = incidents \cup {incident}
        /\ nextIncidentId' = nextIncidentId + 1
        /\ http' = Serving([Calls EXCEPT ![slot] =
                      [kind |-> "createIncident",
                       pc |-> IF Projects(insertIncident.equipmentType,
                                          insertIncident.cameraChannel)
                              THEN "select status" ELSE "done",
                       insertIncident |-> insertIncident, incident |-> incident,
                       existing |-> {}, code |-> 201]], 201)
        /\ UNCHANGED <<buses, equipmentStatus, busDocuments, nextBusId,
                       nextDocumentId, now>>

\* createIncident: the select of the row of the channel
CreateSelectStatus(slot) ==
    LET call == Calls[slot] IN
    /\ call.kind = "createIncident" /\ call.pc = "select status"
    /\ LET found == StatusRows(call.insertIncident.busId,
                               call.insertIncident.cameraChannel)
       IN  IF found = {}
           THEN http' = Serving([Calls EXCEPT ![slot] = [call EXCEPT !.pc = "done"]], 201)
           ELSE \E existing \in found :
                  http' = Serving([Calls EXCEPT ![slot] =
                             [call EXCEPT !.pc = "update status",
                                          !.existing = {existing.id}]], 201)
    /\ UNCHANGED <<db, now>>

\* createIncident: the update of the row it selected, and the answer
CreateUpdateStatus(slot) ==
    LET call == Calls[slot] IN
    /\ call.kind = "createIncident" /\ call.pc = "update status"
    /\ equipmentStatus' = {IF s.id \in call.existing THEN ProjectRow(s, call.incident)
                           ELSE s : s \in equipmentStatus}
    /\ http' = Serving([Calls EXCEPT ![slot] = [call EXCEPT !.pc = "done"]], 201)
    /\ UNCHANGED <<buses, incidents, busDocuments, nextBusId, nextIncidentId,
                   nextDocumentId, now>>

\* PATCH /api/incidents/:id up to the return of the select of the incident;
\* resolveUpdate.resolvedAt is read from the clock on that return
UpdateSelectIncident(slot, id, updates) ==
    LET rows == {i \in incidents : i.id = id}
        call == [kind |-> "updateIncident", pc |-> "done", id |-> id,
                 updates |-> updates, current |-> {}, resolving |-> FALSE,
                 resolvedAt |-> NoTime, existing |-> {}, code |-> 404]
    IN  /\ Free(slot)
        /\ UpdateValid(updates)
        /\ IF rows = {}
           THEN http' = Serving([Calls EXCEPT ![slot] = call], 404)
           ELSE \E current \in rows :
                  http' = Serving([Calls EXCEPT ![slot] =
                             [call EXCEPT
                                !.pc = IF /\ Resolving(updates, current)
                                          /\ Projects(current.equipmentType,
                                                      current.cameraChannel)
                                       THEN "select status" ELSE "update incident",
                                !.current = {current},
                                !.resolving = Resolving(updates, current),
                                !.resolvedAt = IF Resolving(updates, current)
                                               THEN now ELSE NoTime]], 0)
        /\ UNCHANGED <<db, now>>

\* updateIncident: the select of the row of the channel
UpdateSelectStatus(slot) ==
    LET call == Calls[slot] IN
    /\ call.kind = "updateIncident" /\ call.pc = "select status"
    /\ \E current \in call.current :
         LET found == StatusRows(current.busId, current.cameraChannel)
         IN  IF found = {}
             THEN http' = Serving([Calls EXCEPT ![slot] =
                             [call EXCEPT !.pc = "update incident"]], 0)
             ELSE \E existing \in found :
                    http' = Serving([Calls EXCEPT ![slot] =
                               [call EXCEPT !.pc = "update status",
                                            !.existing = {existing.id}]], 0)
    /\ UNCHANGED <<db, now>>

\* updateIncident: the update of the row it selected
UpdateResetStatus(slot) ==
    LET call == Calls[slot] IN
    /\ call.kind = "updateIncident" /\ call.pc = "update status"
    /\ \E current \in call.current :
         equipmentStatus' = {IF s.id \in call.existing THEN ResetRow(s, current)
                             ELSE s : s \in equipmentStatus}
    /\ http' = Serving([Calls EXCEPT ![slot] = [call EXCEPT !.pc = "update incident"]], 0)
    /\ UNCHANGED <<buses, incidents, busDocuments, nextBusId, nextIncidentId,
                   nextDocumentId, now>>

\* the incident row after `.set(resolveUpdate)` with the locals of the call
SetResolveUpdate(stored, call) ==
    [stored EXCEPT
       !.status = IF call.updates.status = ABSENT THEN @ ELSE call.updates.status,
       !.resolutionNotes = IF call.updates.resolutionNotes = ABSENT THEN @
                           ELSE call.updates.resolutionNotes,
       !.resolvedAt = IF call.resolving THEN call.resolvedAt ELSE @]

\* updateIncident: the update of the incident, and the answer: 500 when there
\* is nothing to set, 404 when the row is gone
UpdateSetIncident(slot) ==
    LET call == Calls[slot]
        code == IF /\ call.updates.status = ABSENT
                   /\ call.updates.resolutionNotes = ABSENT /\ ~call.resolving
                THEN 500
                ELSE IF \E i \in incidents : i.id = call.id THEN 200 ELSE 404
    IN  /\ call.kind = "updateIncident" /\ call.pc = "update incident"
        /\ incidents' = IF code = 500 THEN incidents
                        ELSE {IF i.id = call.id THEN SetResolveUpdate(i, call) ELSE i :
                                i \in incidents}
        /\ http' = Serving([Calls EXCEPT ![slot] =
                      [call EXCEPT !.pc = "done", !.code = code]], code)
        /\ UNCHANGED <<buses, equipmentStatus, busDocuments, nextBusId,
                       nextIncidentId, nextDocumentId, now>>

\* the next-state relation over the given request bodies and bus numbers; a
\* request names a bus by an id the database has issued, or by UnknownBus
NextOn(forms, updates, busNumbers) ==
    \/ \E form \in forms : form.busId < nextBusId /\ PostIncidents(form)
    \/ PostIncidentsNext
    \/ \E id \in IncidentIds, u \in updates : PatchIncident(id, u)
    \/ \E busNumber \in busNumbers : PostBus(busNumber)
    \/ \E id \in BusIdInputs : id < nextBusId /\ DeleteBus(id)
    \/ Tick

(* Spec: the life of camera incidents on one channel, under every update    *)
(* the PATCH route accepts.  One bus number, so a second bus exists only    *)
(* after the first is deleted.                                              *)
LifecycleForms ==
    Forms({"camera"}, {"faulty", "misaligned"}, {<<"ch1">>, <<"ch1", "ch1">>})
    \cup Forms({"camera"}, {"broken"}, {<<"ch1">>})
LifecycleUpdates == Updates(IncidentStatuses \cup {ABSENT, "closed"})
Next == NextOn(LifecycleForms, LifecycleUpdates, {"101"})
Spec == Init /\ [][Next]_vars

(* SpecCollapse: camera incidents of every incident type. *)
CollapseForms ==
    Forms({"camera"}, IncidentTypes, {<<"ch1">>, <<"ch1", "ch1">>})
    \cup Forms({"camera"}, {"broken"}, {<<"ch1">>})
CollapseUpdates == Updates({"resolved", "closed"})
NextCollapse == NextOn(CollapseForms, CollapseUpdates, {"101"})
SpecCollapse == Init /\ [][NextCollapse]_vars

(* SpecFanOut: every cameraChannels list a camera request may carry. *)
FanOutForms ==
    Forms({"camera"}, {"faulty"}, ChannelLists(ChannelInputs))
    \cup Forms({"radio"}, {"faulty"}, {<<"ch1">>})
FanOutUpdates == Updates({"resolved", "closed"})
NextFanOut == NextOn(FanOutForms, FanOutUpdates, {"101"})
SpecFanOut == Init /\ [][NextFanOut]_vars

(* SpecFleet: two buses side by side, incidents on two of their channels. *)
FleetForms ==
    Forms({"camera"}, {"faulty"}, ChannelLists({"ch1", "ch3"}))
    \cup Forms({"radio"}, {"faulty"}, {<<"ch1">>})
FleetUpdates == Updates({"resolved", "closed"})
NextFleet == NextOn(FleetForms, FleetUpdates, {"101", "A7"})
SpecFleet == Init /\ [][NextFleet]_vars

(* SpecEquipment: every equipment type, with and without a channel list. *)
EquipmentForms ==
    Forms(EquipmentTypes, {"faulty"}, {NoChannels, <<>>, <<"ch1">>, <<"", "ch1">>})
    \cup Forms({"radio"}, {"faulty"}, {<<"ch1">>})
EquipmentUpdates == Updates({"resolved", "closed"})
NextEquipment == NextOn(EquipmentForms, EquipmentUpdates, {"101"})
SpecEquipment == Init /\ [][NextEquipment]_vars

(* SpecValidation: request bodies inside and outside the enumerations. *)
ValidationForms ==
    Forms({"camera"}, {"faulty"}, {<<"ch1">>, <<"ch1", "ch1">>})
    \cup Forms({"camera", "radio"}, {"faulty", "broken"}, {<<"ch1">>})
ValidationUpdates == Updates({"in_progress", "resolved", "closed"})
NextValidation == NextOn(ValidationForms, ValidationUpdates, {"101"})
SpecValidation == Init /\ [][NextValidation]_vars

(* SpecReports: incidents reported and resolved around the end of a week    *)
(* and of a month: the last instant of Sunday 4 January, the first of       *)
(* Monday 5 January, the first of Sunday 1 February.                        *)
ReportForms ==
    Forms({"dvr"}, {"faulty"}, {NoChannels})
    \cup Forms({"camera"}, {"faulty"}, {<<"ch1", "ch1">>})
ReportUpdates == Updates({"in_progress", "resolved"})
ReportInstants == {EndOfDay(3), StartOfDay(4), StartOfDay(31)}
\* the dates the reports are asked for
ReportDates == {StartOfDay(0), StartOfDay(4), StartOfDay(31)}
NextReports ==
    \/ NextOn(ReportForms, ReportUpdates, {"101"})
    \/ \E t \in ReportInstants : Sleep(t)
SpecReports == Init /\ [][NextReports]_vars

(* SpecCascade: two buses with incidents and documents, and their deletion. *)
CascadeForms == Forms({"camera"}, {"faulty"}, {<<"ch1">>, <<"ch1", "ch1">>})
CascadeUpdates == Updates({"resolved"})
CascadeBodies ==
    [file : {TRUE}, docType : {"revision_tecnica"}, expiresAt : {NoTime}]
NextCascade ==
    \/ NextOn(CascadeForms, CascadeUpdates, {"101", "A7"})
    \/ \E busId \in BusIdInputs, body \in CascadeBodies :
         busId < nextBusId /\ PostDocument(busId, body)
    \/ \E docId \in 1..MaxDocuments : DeleteDocument(docId)
SpecCascade == Init /\ [][NextCascade]_vars

(* SpecFaults: the requests on buses and incidents, each of which the       *)
(* database may reject at any one statement.                                *)
FaultForms ==
    Forms({"camera"}, {"faulty"}, {<<"ch1">>, <<"ch1", "ch3">>})
    \cup Forms({"radio"}, {"faulty"}, {<<"ch1">>})
FaultUpdates == Updates({"resolved", "closed"})
NextFaults ==
    \/ NextOn(FaultForms, FaultUpdates, {"101"})
    \/ \E form \in FaultForms, k \in DOMAIN CreateSteps :
         form.busId < nextBusId /\ PostIncidentsFails(form, CreateSteps[k])
    \/ \E k \in DOMAIN CreateSteps : PostIncidentsNextFails(CreateSteps[k])
    \/ \E id \in IncidentIds, u \in FaultUpdates, k \in DOMAIN UpdateSteps :
         PatchIncidentFails(id, u, UpdateSteps[k])
    \/ \E step \in 1..(Len(Channels) + 1) : PostBusFails("101", step)
SpecFaults == Init /\ [][NextFaults]_vars

(* SpecExpiry: documents of every alerted type and of two others, expiring   *)
(* on 8 January, on 7 February or never, scanned on either side of the day   *)
(* each alert starts and a day and a half after the first expiry.            *)
DocTypes ==
    {"revision_tecnica", "licencia_conducir", "cedula_conductor",
     "permiso_circulacion", "chasis"}
ExpiryBodies ==
    [file : {TRUE}, docType : DocTypes,
     expiresAt : {NoTime, StartOfDay(7), StartOfDay(37)}]
ExpiryInstants ==
    {EndOfDay(1), StartOfDay(2), EndOfDay(6), StartOfDay(7), EndOfDay(8)}
NextExpiry ==
    \/ PostBus("101")
    \/ \E busId \in BusIdInputs, body \in ExpiryBodies :
         busId < nextBusId /\ PostDocument(busId, body)
    \/ \E docId \in 1..MaxDocuments : DeleteDocument(docId)
    \/ GetExpiring
    \/ Tick
    \/ \E t \in ExpiryInstants : Sleep(t)
SpecExpiry == Init /\ [][NextExpiry]_vars

(* SpecOrder: buses numbered 7, 07, 101, 1000000, 9999999999 and A7, two at  *)
(* a time, and the list of them.                                            *)
OrderNumbers ==
    {<<"7">>, <<"0", "7">>, <<"1", "0", "1">>, <<"A", "7">>,
     <<"1", "0", "0", "0", "0", "0", "0">>,
     <<"9", "9", "9", "9", "9", "9", "9", "9", "9", "9">>}
NextOrder ==
    \/ \E busNumber \in OrderNumbers : PostBus(busNumber)
    \/ \E id \in BusIdInputs : id < nextBusId /\ DeleteBus(id)
    \/ GetBuses
    \/ Tick
SpecOrder == Init /\ [][NextOrder]_vars

(* SpecRace: reports of a faulty camera on ch1 and resolutions, of which     *)
(* MaxInFlight are served at the same time, one statement at a time.         *)
RaceForms == Forms({"camera"}, {"faulty"}, {<<"ch1">>})
RaceUpdates == Updates({"resolved"})
NextRace ==
    \/ PostBus("101")
    \/ \E slot \in Slots, form \in RaceForms :
         form.busId < nextBusId /\ CreateInsert(slot, form)
    \/ \E slot \in Slots : CreateSelectStatus(slot)
    \/ \E slot \in Slots : CreateUpdateStatus(slot)
    \/ \E slot \in Slots, id \in IncidentIds, u \in RaceUpdates :
         UpdateSelectIncident(slot, id, u)
    \/ \E slot \in Slots : UpdateSelectStatus(slot)
    \/ \E slot \in Slots : UpdateResetStatus(slot)
    \/ \E slot \in Slots : UpdateSetIncident(slot)
    \/ Tick
SpecRace == Init /\ [][NextRace]_vars

(* SpecWeekly: the weekly-report page on the weeks of 1, 8 and 15 January,   *)
(* of the middle of the year and of the last days of December, in a year     *)
(* that starts on a Sunday, on a Monday, on a Thursday and on a Friday, with *)
(* DVR incidents reported on 1 January 2026.                                 *)
WeeklyForms == Forms({"dvr"}, {"faulty"}, {NoChannels})
PageYears == {2023, 2024, 2026, 2027}
PageDates ==
    {StartOfDay(FirstDayOfYear(y) + k) : y \in PageYears, k \in {0, 7, 14, 180, 361}}
NextWeekly ==
    \/ PostBus("101")
    \/ \E form \in WeeklyForms : form.busId < nextBusId /\ PostIncidents(form)
    \/ \E currentDate \in PageDates : GetReportsWeekly(weekParam(currentDate))
    \/ GetReportsWeekly(<<>>)
    \/ Tick
SpecWeekly == Init /\ [][NextWeekly]_vars

----------------------------------------------------------------------------
(* Vocabulary of the properties.  A property reads the tables before and    *)
(* after a step; it names a step by the method call that makes it.          *)

\* this step is one createIncident call: the only writer of the incident ids
CreateCall == nextIncidentId' = nextIncidentId + 1

\* the incident a CreateCall step inserted
Created == {i \in incidents' : i.id = nextIncidentId}

\* the request bodies of the PATCH route that pass its validation
ValidUpdates == {u \in LifecycleUpdates : u.status \in IncidentStatuses \cup {ABSENT}}
ResolveUpdates == {u \in ValidUpdates : u.status = "resolved"}

\* the rows of a (bus, channel) before and after the step
RowsOf(busId, channel) ==
    {s \in equipmentStatus : s.busId = busId /\ s.cameraChannel = channel}
RowsOfAfter(busId, channel) ==
    {s \in equipmentStatus' : s.busId = busId /\ s.cameraChannel = channel}

IsCameraOnChannel(i) == i.equipmentType = "camera" /\ i.cameraChannel /= NULL

----------------------------------------------------------------------------
\* C1: every createIncident call for a camera incident on channel c of a bus
\* that has a row for (bus, c) leaves that row "faulty" when incidentType is
\* faulty and "misaligned" when it is misaligned, loose_cable or replacement,
\* with lastIncidentId the id of the incident just created.
C1_CreateProjectsStatus ==
    [][CreateCall =>
        \A i \in Created :
          (IsCameraOnChannel(i) /\ RowsOf(i.busId, i.cameraChannel) /= {}) =>
            /\ RowsOfAfter(i.busId, i.cameraChannel) /= {}
            /\ \A t \in RowsOfAfter(i.busId, i.cameraChannel) :
                 /\ i.incidentType = "faulty" => t.status = "faulty"
                 /\ i.incidentType \in {"misaligned", "loose_cable", "replacement"}
                      => t.status = "misaligned"
                 /\ t.lastIncidentId = i.id]_vars

\* a row that a loose_cable or replacement incident has projected onto
C1_Witness ==
    \E t \in equipmentStatus, i \in incidents :
      /\ t.lastIncidentId = i.id
      /\ i.incidentType \in {"loose_cable", "replacement"}
      /\ t.status = "misaligned"

----------------------------------------------------------------------------
\* C2 (as claimed): every update request with status = resolved on a camera
\* incident with a channel leaves the rows of its (bus, channel) operational,
\* whatever the incident's own history.
C2_ResolveAlwaysResets ==
    [][\A id \in IncidentIds, u \in ResolveUpdates :
         PatchIncident(id, u) =>
           \A i \in incidents :
             (i.id = id /\ IsCameraOnChannel(i)) =>
               \A t \in RowsOfAfter(i.busId, i.cameraChannel) : t.status = "operational"]_vars

\* C2 (amended): an update request with status = resolved on a camera incident
\* whose resolvedAt is still null leaves the rows of its (bus, channel)
\* operational whatever their status was; on an incident whose resolvedAt is
\* already set it leaves the equipment-status table as it was.
C2_FirstResolveResets ==
    [][\A id \in IncidentIds, u \in ResolveUpdates :
         PatchIncident(id, u) =>
           \A i \in incidents :
             (i.id = id /\ IsCameraOnChannel(i)) =>
               IF i.resolvedAt = NoTime
               THEN /\ \A s \in RowsOf(i.busId, i.cameraChannel) :
                         \E t \in RowsOfAfter(i.busId, i.cameraChannel) : t.id = s.id
                    /\ \A t \in RowsOfAfter(i.busId, i.cameraChannel) :
                         t.status = "operational"
               ELSE equipmentStatus' = equipmentStatus]_vars

\* a row that an incident projected onto and the resolution of that incident reset
C2_Witness ==
    \E t \in equipmentStatus, i \in incidents :
      /\ t.lastIncidentId = i.id
      /\ t.busId = i.busId /\ t.cameraChannel = i.cameraChannel
      /\ i.status = "resolved" /\ i.resolvedAt /= NoTime
      /\ t.status = "operational"

----------------------------------------------------------------------------
\* C3: resolvedAt of an incident is null when the incident is created, leaves
\* null only in an update with status = resolved, which sets it to the time of
\* that call, and from then on keeps that value under every request.
C3_ResolvedAtSetOnce ==
    [][/\ \A j \in incidents' :
            (\A i \in incidents : i.id /= j.id) => j.resolvedAt = NoTime
       /\ \A i \in incidents, j \in incidents' :
            i.id = j.id =>
              /\ i.resolvedAt /= NoTime => j.resolvedAt = i.resolvedAt
              /\ (i.resolvedAt = NoTime /\ j.resolvedAt /= NoTime) =>
                   /\ j.resolvedAt = now
                   /\ \E u \in ResolveUpdates : PatchIncident(i.id, u)
       /\ \A id \in IncidentIds, u \in ResolveUpdates :
            PatchIncident(id, u) =>
              \A j \in incidents' : j.id = id => j.resolvedAt /= NoTime]_vars

\* an incident resolved at an earlier time and set to in_progress since
C3_Witness ==
    \E i \in incidents :
      /\ i.resolvedAt /= NoTime /\ i.resolvedAt < now
      /\ i.status = "in_progress"

----------------------------------------------------------------------------
\* the response to a camera create request that selected N >= 1 channels
FanOutResponse ==
    /\ http.code = 201
    /\ http.createdIncidents /= <<>>
    /\ http.form.equipmentType = "camera"
    /\ http.form.cameraChannels /= NoChannels
    /\ Len(http.form.cameraChannels) >= 1

\* the incident rows the request created
CreatedRows == {i \in incidents : \E k \in DOMAIN http.createdIncidents :
                                    http.createdIncidents[k] = i.id}

\* exactly as many rows as channels, created one after the other, all with the
\* same description, reporter, equipmentType and incidentType
FanOutRows ==
    /\ Len(http.createdIncidents) = Len(http.form.cameraChannels)
    /\ Cardinality(CreatedRows) = Len(http.form.cameraChannels)
    /\ \A k \in DOMAIN http.createdIncidents :
         http.createdIncidents[k] = nextIncidentId - Len(http.createdIncidents) + k - 1
    /\ \A i \in CreatedRows :
         /\ i.equipmentType = "camera"
         /\ i.incidentType = http.form.incidentType
    /\ \A i, j \in CreatedRows :
         i.description = j.description /\ i.reporter = j.reporter

\* C4 (as claimed): a camera create request with N >= 1 selected channels has
\* created exactly N incident rows with pairwise distinct cameraChannel and the
\* same description, reporter, equipmentType and incidentType, whatever list
\* the validation accepted.
C4_FanOutDistinct ==
    FanOutResponse =>
      /\ FanOutRows
      /\ \A i, j \in CreatedRows : i.id /= j.id => i.cameraChannel /= j.cameraChannel

\* C4 (amended): a camera create request with N >= 1 selected channels has
\* created exactly N incident rows with the same description, reporter,
\* equipmentType and incidentType, the k-th with the k-th element of the list
\* as cameraChannel (null for the empty string); their channels are pairwise
\* distinct exactly when the elements of the list are.
C4_FanOutPerElement ==
    FanOutResponse =>
      /\ FanOutRows
      /\ \A k \in DOMAIN http.createdIncidents :
           \A i \in CreatedRows :
             i.id = http.createdIncidents[k] =>
               i.cameraChannel = IF http.form.cameraChannels[k] = "" THEN NULL
                                 ELSE http.form.cameraChannels[k]
      /\ (\A i, j \in CreatedRows : i.id /= j.id => i.cameraChannel /= j.cameraChannel)
           <=> (\A k, l \in DOMAIN http.form.cameraChannels :
                  k /= l => http.form.cameraChannels[k] /= http.form.cameraChannels[l])

\* the response to a request that selected the same channel twice
C4_Witness ==
    /\ FanOutResponse
    /\ Len(http.createdIncidents) = 2
    /\ http.form.cameraChannels[1] = http.form.cameraChannels[2]

----------------------------------------------------------------------------
\* C5: a createIncident call leaves every row of another bus or another channel
\* than the created incident's as it was, and so does an update request for
\* every row of another bus or another channel than the updated incident's.
C5_OtherRowsUnchanged ==
    [][/\ CreateCall =>
            \A i \in Created, s \in equipmentStatus :
              (s.busId /= i.busId \/ s.cameraChannel /= i.cameraChannel)
                => s \in equipmentStatus'
       /\ \A id \in IncidentIds, u \in FleetUpdates :
            PatchIncident(id, u) =>
              \A i \in incidents, s \in equipmentStatus :
                (i.id = id /\ (s.busId /= i.busId \/ s.cameraChannel /= i.cameraChannel))
                  => s \in equipmentStatus']_vars

\* two buses; on one, faulty incidents were created on ch1 and ch3 and the ch1
\* incident was resolved: ch1 is operational again, ch3 is faulty, ch2 and ch4
\* and the other bus were never touched
C5_Witness ==
    \E b, c \in buses :
      /\ b.id /= c.id
      /\ \A s \in equipmentStatus :
           s.busId = c.id => s.status = "operational" /\ s.lastIncidentId = NoIncident
      /\ \E s1, s2, s3, s4 \in equipmentStatus :
           /\ s1.busId = b.id /\ s1.cameraChannel = "ch1"
           /\ s1.status = "operational" /\ s1.lastIncidentId /= NoIncident
           /\ s3.busId = b.id /\ s3.cameraChannel = "ch3" /\ s3.status = "faulty"
           /\ s2.busId = b.id /\ s2.cameraChannel = "ch2"
           /\ s2.status = "operational" /\ s2.lastIncidentId = NoIncident
           /\ s4.busId = b.id /\ s4.cameraChannel = "ch4"
           /\ s4.status = "operational" /\ s4.lastIncidentId = NoIncident

----------------------------------------------------------------------------
\* C6: a createIncident call for an incident that is not a camera incident or
\* has no channel, and an update request on such an incident, leave the
\* equipment-status table as it was; a create request for dvr, gps, hard_drive
\* or cable equipment creates such an incident whatever cameraChannels it carries.
C6_NonCameraLeavesTable ==
    [][/\ CreateCall =>
            /\ \A i \in Created :
                 ~IsCameraOnChannel(i) => equipmentStatus' = equipmentStatus
            /\ http'.form.equipmentType /= "camera" => equipmentStatus' = equipmentStatus
       /\ \A id \in IncidentIds, u \in EquipmentUpdates :
            PatchIncident(id, u) =>
              \A i \in incidents :
                (i.id = id /\ ~IsCameraOnChannel(i)) => equipmentStatus' = equipmentStatus]_vars

\* a camera incident without a channel was resolved, then a dvr request that
\* carried the list <<ch1>> was answered 201, on a bus whose rows exist
C6_Witness ==
    /\ http.code = 201 /\ http.createdIncidents /= <<>>
    /\ http.form.equipmentType = "dvr" /\ http.form.cameraChannels = <<"ch1">>
    /\ \E i, j \in incidents :
         /\ i.id = Head(http.createdIncidents) /\ i.equipmentType = "dvr"
         /\ j.equipmentType = "camera" /\ j.cameraChannel = NULL
         /\ j.status = "resolved" /\ j.busId = i.busId
         /\ \E s \in equipmentStatus : s.busId = i.busId

----------------------------------------------------------------------------
\* C7: a createBus call that succeeds leaves the new bus with exactly four
\* rows, one for each of ch1, ch2, ch3 and ch4, every one of them a camera row
\* with status operational.
C7_CreateBusSeedsFourRows ==
    [][nextBusId' = nextBusId + 1 =>
         LET rows == {s \in equipmentStatus' : s.busId = nextBusId} IN
         /\ Cardinality(rows) = 4
         /\ \A c \in {"ch1", "ch2", "ch3", "ch4"} :
              Cardinality({s \in rows : s.cameraChannel = c}) = 1
         /\ \A s \in rows : s.equipmentType = "camera" /\ s.status = "operational"
         /\ \E b \in buses' : b.id = nextBusId]_vars

\* the second bus has just been created, answered 201, while a channel of the
\* first is faulty: the new bus has rows that no incident has touched
C7_Witness ==
    /\ http.code = 201 /\ http.createdIncidents = <<>>
    /\ \E b, c \in buses :
         /\ b.id < c.id /\ c.id = nextBusId - 1
         /\ \E s \in equipmentStatus : s.busId = b.id /\ s.status = "faulty"
         /\ \E s \in equipmentStatus :
              /\ s.busId = c.id /\ s.cameraChannel = "ch4"
              /\ s.status = "operational" /\ s.lastIncidentId = NoIncident
              /\ s.updatedAt = now

----------------------------------------------------------------------------
\* C8: when an update request resolves for the first time an unresolved camera
\* incident while another unresolved incident exists for the same bus and
\* channel, the row of that channel is operational afterwards and the other
\* incident is as open as it was.
C8_LastWriteWins ==
    [][\A id \in IncidentIds, u \in ResolveUpdates :
         PatchIncident(id, u) =>
           \A i, j \in incidents :
             (/\ i.id = id /\ j.id /= id
              /\ i.status /= "resolved" /\ i.resolvedAt = NoTime
              /\ j.status /= "resolved"
              /\ IsCameraOnChannel(i)
              /\ j.busId = i.busId /\ j.cameraChannel = i.cameraChannel
              /\ j.equipmentType = "camera")
             => /\ j \in incidents'
                /\ Cardinality(RowsOfAfter(i.busId, i.cameraChannel))
                     = Cardinality(RowsOf(i.busId, i.cameraChannel))
                /\ \A s \in RowsOfAfter(i.busId, i.cameraChannel) :
                     s.status = "operational"]_vars

\* the channel is operational, its row refers to an incident that is still
\* pending, and an earlier incident of the channel is resolved
C8_Witness ==
    \E s \in equipmentStatus, i, j \in incidents :
      /\ i.id < j.id
      /\ i.busId = s.busId /\ i.cameraChannel = s.cameraChannel
      /\ j.busId = s.busId /\ j.cameraChannel = s.cameraChannel
      /\ i.status = "resolved" /\ i.resolvedAt = s.updatedAt
      /\ j.status = "pending" /\ j.resolvedAt = NoTime
      /\ s.lastIncidentId = j.id
      /\ s.status = "operational"

----------------------------------------------------------------------------
\* C9: an update request leaves every row of the equipment-status table with
\* the lastIncidentId it had, the row it resets to operational included.
C9_ResolveKeepsLastIncidentId ==
    [][\A id \in IncidentIds, u \in LifecycleUpdates :
         PatchIncident(id, u) =>
           /\ \A s \in equipmentStatus :
                \E t \in equipmentStatus' :
                  t.id = s.id /\ t.lastIncidentId = s.lastIncidentId
           /\ Cardinality(equipmentStatus') = Cardinality(equipmentStatus)]_vars

\* a row reset by the resolution of the incident it refers to, at a later time
\* than the incident was reported
C9_Witness ==
    \E s \in equipmentStatus, i \in incidents :
      /\ s.lastIncidentId = i.id
      /\ s.status = "operational"
      /\ i.status = "resolved"
      /\ s.updatedAt = i.resolvedAt /\ i.reportedAt < i.resolvedAt

----------------------------------------------------------------------------
\* C10: no step takes an incident whose status is resolved to another status.
C10_ResolvedIsFinal ==
    [][\A i \in incidents, j \in incidents' :
         (j.id = i.id /\ i.status = "resolved") => j.status = "resolved"]_vars

----------------------------------------------------------------------------
\* C11: a request on incidents answered 500 leaves the incident table and the
\* equipment-status table as they were when the request arrived: the step
\* that answers changes neither, and no createIncident call of the same
\* request came before.  (The requests that may write the bus table are not
\* requests on incidents.)
C11_FailureLeavesStateUnchanged ==
    [][(http'.code = 500 /\ buses' = buses) =>
         /\ incidents' = incidents
         /\ equipmentStatus' = equipmentStatus
         /\ http.code /= 0]_vars

----------------------------------------------------------------------------
\* C12: an update request with status = resolved for a camera incident on a
\* channel whose (bus, channel) has no row is answered 200, leaves the
\* equipment-status table as it was (no row is created), and leaves the
\* incident with status resolved and resolvedAt set.
C12_ResolveWithoutRow ==
    [][\A id \in IncidentIds, u \in FanOutUpdates :
         (u.status = "resolved" /\ PatchIncident(id, u)) =>
           \A i \in incidents :
             (/\ i.id = id /\ IsCameraOnChannel(i)
              /\ RowsOf(i.busId, i.cameraChannel) = {})
             => /\ http'.code = 200
                /\ equipmentStatus' = equipmentStatus
                /\ \E j \in incidents' :
                     /\ j.id = id /\ j.status = "resolved"
                     /\ j.resolvedAt /= NoTime
                     /\ i.resolvedAt = NoTime => j.resolvedAt = now]_vars

\* a resolved camera incident on channel ch9 of an existing bus, which has
\* rows for ch1..ch4 only, right after the answer 200
C12_Witness ==
    /\ http.code = 200
    /\ \E i \in incidents, b \in buses :
         /\ i.busId = b.id /\ i.equipmentType = "camera" /\ i.cameraChannel = "ch9"
         /\ i.status = "resolved" /\ i.resolvedAt /= NoTime
         /\ RowsOf(b.id, "ch9") = {}
         /\ Cardinality({s \in equipmentStatus : s.busId = b.id}) = 4

----------------------------------------------------------------------------
\* C13: an update request that passes validation is answered 404 exactly when
\* its id names no incident, and then it changes no incident and no row of
\* the equipment-status table.
C13_UnknownIncidentNotFound ==
    [][\A id \in IncidentIds, u \in ValidUpdates :
         PatchIncident(id, u) =>
           IF \E i \in incidents : i.id = id
           THEN http'.code /= 404
           ELSE /\ http'.code = 404
                /\ incidents' = incidents
                /\ equipmentStatus' = equipmentStatus]_vars

\* an answer 404 while the only incident created so far is pending and the
\* row of its channel faulty: the id of a second incident names nothing yet
C13_Witness ==
    /\ http.code = 404
    /\ nextIncidentId = 2
    /\ \E i \in incidents, s \in equipmentStatus :
         /\ i.id = 1 /\ i.status = "pending"
         /\ s.busId = i.busId /\ s.cameraChannel = i.cameraChannel
         /\ s.status = "faulty" /\ s.lastIncidentId = i.id

----------------------------------------------------------------------------
\* C14: a create request whose equipmentType is outside camera, dvr, gps,
\* hard_drive, cable or whose incidentType is outside misaligned, loose_cable,
\* faulty, replacement, and an update request whose status is outside pending,
\* in_progress, resolved, is answered 400 and leaves the incident table and the
\* equipment-status table as they were.
C14_MalformedRejected ==
    [][/\ \A form \in {f \in ValidationForms :
                         \/ f.equipmentType
                              \notin {"camera", "dvr", "gps", "hard_drive", "cable"}
                         \/ f.incidentType
                              \notin {"misaligned", "loose_cable", "faulty", "replacement"}} :
            PostIncidents(form)
            => /\ http'.code = 400
               /\ incidents' = incidents /\ equipmentStatus' = equipmentStatus
               /\ nextIncidentId' = nextIncidentId
       /\ \A id \in IncidentIds,
             u \in {v \in ValidationUpdates :
                      v.status \notin {"pending", "in_progress", "resolved", ABSENT}} :
            PatchIncident(id, u)
            => /\ http'.code = 400
               /\ incidents' = incidents /\ equipmentStatus' = equipmentStatus]_vars

\* an answer 400 while an incident is in progress and the row of its channel
\* faulty, with room for one more incident
C14_Witness ==
    /\ http.code = 400
    /\ nextIncidentId = 2
    /\ \E i \in incidents, s \in equipmentStatus :
         /\ i.status = "in_progress"
         /\ s.busId = i.busId /\ s.cameraChannel = i.cameraChannel
         /\ s.status = "faulty" /\ s.lastIncidentId = i.id

----------------------------------------------------------------------------
----------------------------------------------------------------------------
\* C16: in every reachable state getCameraStatus has, for every bus, one
\* entry, whose cameras are exactly four, for ch1, ch2, ch3, ch4 in this
\* order, each with the status of the stored row of that bus and channel, or
\* "operational" when the bus has no row for the channel.
C16_CameraStatusFourEntries ==
    /\ \A b \in buses :
         Cardinality({e \in getCameraStatus : e.busId = b.id}) = 1
    /\ \A e \in getCameraStatus :
         /\ \E b \in buses : b.id = e.busId
         /\ Len(e.cameras) = 4
         /\ \A k \in 1..4 :
              LET channel == <<"ch1", "ch2", "ch3", "ch4">>[k]
                  rows == {s \in equipmentStatus :
                             s.busId = e.busId /\ s.cameraChannel = channel}
              IN  /\ e.cameras[k].channel = channel
                  /\ rows = {} => e.cameras[k].status = "operational"
                  /\ \A s \in rows : e.cameras[k].status = s.status

\* a bus whose creation was rejected after the rows of ch1 and ch2, with a
\* faulty ch1: its entry reads faulty, operational, and operational twice for
\* the rows that do not exist
C16_Witness ==
    \E e \in getCameraStatus :
      /\ Cardinality({s \in equipmentStatus : s.busId = e.busId}) = 2
      /\ e.cameras[1].status = "faulty"
      /\ e.cameras[2].status = "operational"
      /\ e.cameras[3] = [channel |-> "ch3", status |-> "operational"]
      /\ e.cameras[4] = [channel |-> "ch4", status |-> "operational"]

----------------------------------------------------------------------------
\* C17: in every reachable state the dashboard's activeIncidents is the number
\* of incidents whose status is pending or in_progress, and its pendingRepairs
\* the number whose status is pending.
C17_DashboardCounters ==
    /\ getDashboardStats.activeIncidents
         = Cardinality({i \in incidents : i.status \in {"pending", "in_progress"}})
    /\ getDashboardStats.pendingRepairs
         = Cardinality(incidents) - Cardinality({i \in incidents : i.status /= "pending"})

\* one incident pending and one in progress: two active, one pending repair
C17_Witness ==
    /\ getDashboardStats.activeIncidents = 2
    /\ getDashboardStats.pendingRepairs = 1
    /\ \E i \in incidents : i.status = "in_progress"

----------------------------------------------------------------------------
\* the days of the Monday-to-Sunday week that contains the instant t
WeekDaysOf(t) ==
    {d \in (DayOf(t) - 6)..(DayOf(t) + 6) :
       \E monday \in (DayOf(t) - 6)..DayOf(t) :
         GetDay(monday) = 1 /\ monday <= d /\ d <= monday + 6}

\* C18: in every reachable state the dashboard's resolvedThisWeek is the number
\* of incidents with status resolved whose resolvedAt falls on a day of the
\* Monday-to-Sunday week that contains the current time, from the first
\* instant of the Monday to the last instant of the Sunday.
C18_ResolvedThisWeek ==
    getDashboardStats.resolvedThisWeek
      = Cardinality({i \in incidents :
                       /\ i.status = "resolved" /\ i.resolvedAt /= NoTime
                       /\ DayOf(i.resolvedAt) \in WeekDaysOf(now)})

\* at the first instant of Monday 5 January, with one incident resolved at
\* the last instant of Sunday 4 January and one resolved now: the dashboard
\* counts the second only
C18_Witness ==
    /\ now = StartOfDay(4)
    /\ getDashboardStats.resolvedThisWeek = 1
    /\ \E i, j \in incidents :
         /\ i.status = "resolved" /\ i.resolvedAt = EndOfDay(3)
         /\ j.status = "resolved" /\ j.resolvedAt = now

----------------------------------------------------------------------------
\* C19: in every reachable state and for every date d, getWeeklyReport(d)
\* has for totalIncidents the number of incidents whose reportedAt falls on a
\* day of the Monday-to-Sunday week that contains d, whenever they were
\* resolved; an incident reported at the last instant of Sunday 4 January is
\* in the report of the week of Thursday 1 January and not in that of Monday
\* 5 January.
C19_WeeklyReportByReportDate ==
    /\ \A d \in ReportDates :
         getWeeklyReport(d).totalIncidents
           = Cardinality({i \in incidents : DayOf(i.reportedAt) \in WeekDaysOf(d)})
    /\ \A i \in incidents :
         i.reportedAt = EndOfDay(3) =>
           /\ i \in WeekIncidents(StartOfDay(0))
           /\ i \notin WeekIncidents(StartOfDay(4))

\* one incident reported at the last instant of Sunday 4 January and resolved
\* on Monday 5 January, one reported on that Monday: each week's report
\* counts one incident, the first week's as resolved
C19_Witness ==
    /\ \E i, j \in incidents :
         /\ i.reportedAt = EndOfDay(3) /\ i.resolvedAt = StartOfDay(4)
         /\ i.status = "resolved"
         /\ j.reportedAt = StartOfDay(4)
    /\ getWeeklyReport(StartOfDay(0)).totalIncidents = 1
    /\ getWeeklyReport(StartOfDay(0)).resolvedIncidents = 1
    /\ getWeeklyReport(StartOfDay(4)).totalIncidents = 1

----------------------------------------------------------------------------
\* the ISO week number of an instant of the modelled year: weeks start on
\* Monday and week 1 is the week of Thursday 1 January
IsoWeek(t) ==
    LET monday == CHOOSE m \in (DayOf(t) - 6)..DayOf(t) : GetDay(m) = 1
    IN  ((monday + 3) \div 7) + 1

\* C20: in every reachable state and for every month, weeklyTrend has one
\* entry per ISO week number in which an incident of the month was reported,
\* with the count of the month's incidents reported in that ISO week, in
\* ascending order of week number.
C20_WeeklyTrendByIsoWeek ==
    \A d \in ReportDates :
      LET trend == getMonthlyReport(d).weeklyTrend
          month == {i \in incidents : MonthOf(i.reportedAt) = MonthOf(d)}
      IN  /\ {trend[k].week : k \in DOMAIN trend} = {IsoWeek(i.reportedAt) : i \in month}
          /\ \A k \in DOMAIN trend :
               trend[k].count
                 = Cardinality({i \in month : IsoWeek(i.reportedAt) = trend[k].week})
          /\ \A k, l \in DOMAIN trend : k < l => trend[k].week < trend[l].week

----------------------------------------------------------------------------
\* the response is the result of an expiry scan
IsScan == "expiring" \in DOMAIN http

\* the least number of whole days that covers the time from `at` to expiresAt
DaysUntil(doc, at) ==
    CHOOSE n \in -40..40 :
      /\ n * SlotsPerDay >= doc.expiresAt - at
      /\ (n - 1) * SlotsPerDay < doc.expiresAt - at

\* the documents an expiry scan at `at` is to report
Due(at) ==
    {d \in busDocuments :
       /\ d.expiresAt /= NoTime
       /\ \/ d.docType = "revision_tecnica" /\ DaysUntil(d, at) <= 5
          \/ d.docType \in {"licencia_conducir", "cedula_conductor"}
               /\ DaysUntil(d, at) <= 30}

(* C21: the result of getExpiringDocuments holds one entry for each document *)
(* whose expiresAt is not null, whose docType is revision_tecnica (threshold *)
(* 5), licencia_conducir or cedula_conductor (threshold 30) and whose        *)
(* daysLeft, the ceiling of the days from now to expiresAt, is at most the   *)
(* threshold, expired documents included, and no other entry; a              *)
(* permiso_circulacion or chasis document never appears.                     *)
C21_ExpiringIffDue ==
    IsScan =>
      /\ Len(http.expiring) = Cardinality(Due(http.at))
      /\ \A d \in busDocuments :
           d \in Due(http.at)
             <=> \E k \in DOMAIN http.expiring :
                   /\ http.expiring[k].docType = d.docType
                   /\ http.expiring[k].expiresAt = d.expiresAt
                   /\ http.expiring[k].busNumber = BusNumberOf(d.busId)
                   /\ http.expiring[k].daysLeft = DaysUntil(d, http.at)
      /\ \A k \in DOMAIN http.expiring :
           http.expiring[k].docType \notin {"permiso_circulacion", "chasis"}

\* a scan on the day the alert of a revision_tecnica starts reports it, and
\* leaves out a licencia_conducir due in more than 30 days
C21_Witness ==
    /\ IsScan
    /\ Len(http.expiring) = 1
    /\ http.expiring[1].docType = "revision_tecnica"
    /\ http.expiring[1].daysLeft = 5
    /\ \E d \in busDocuments :
         d.docType = "licencia_conducir" /\ d.expiresAt /= NoTime

----------------------------------------------------------------------------
\* this step is one GET /api/documents/expiring request
ScanCall == IsScan' /\ now' = now /\ ~(UNCHANGED vars)

\* the two results hold the same entries, each as many times
SameEntries(a, b) ==
    \A e \in {a[k] : k \in DOMAIN a} \cup {b[k] : k \in DOMAIN b} :
      Cardinality({k \in DOMAIN a : a[k] = e}) = Cardinality({k \in DOMAIN b : b[k] = e})

(* C22, as stated: the expiry scan changes no stored data, and a scan that   *)
(* follows a scan with no request between them returns the result of the     *)
(* first.                                                                    *)
C22_ScanIdempotent ==
    [][ScanCall =>
         /\ UNCHANGED db
         /\ IsScan => http'.expiring = http.expiring]_vars

(* C22, amended: the expiry scan changes no stored data, and a scan that     *)
(* follows a scan with no request between them and at the same clock reading *)
(* returns the same entries, in ascending daysLeft order.                    *)
C22_ScanIdempotentAtOneInstant ==
    [][ScanCall =>
         /\ UNCHANGED db
         /\ \A k, l \in DOMAIN http'.expiring :
              k <= l => http'.expiring[k].daysLeft <= http'.expiring[l].daysLeft
         /\ IsScan /\ http.at = now => SameEntries(http'.expiring, http.expiring)]_vars

\* the answer of a scan that reported two documents of different types with
\* the same daysLeft, at the clock reading of that scan
C22_Witness ==
    /\ IsScan
    /\ http.at = now
    /\ Len(http.expiring) = 2
    /\ http.expiring[1].daysLeft = http.expiring[2].daysLeft
    /\ http.expiring[1].docType /= http.expiring[2].docType

----------------------------------------------------------------------------
(* C23: getBuses returns all buses, every all-digit bus number before every  *)
(* other bus number, the all-digit ones in ascending order of their value,   *)
(* and bus numbers that tie in the order of their text, whatever the bus     *)
(* numbers are.                                                             *)
C23_NumericFirst ==
    /\ ~getBusesThrows
    /\ Len(getBuses) = Cardinality(buses)
    /\ {getBuses[k] : k \in DOMAIN getBuses} = buses
    /\ \A k, l \in DOMAIN getBuses :
         k < l =>
           LET a == getBuses[k].busNumber
               b == getBuses[l].busNumber
           IN  /\ ~(~IsAllDigits(a) /\ IsAllDigits(b))
               /\ IsAllDigits(a) /\ IsAllDigits(b) => DigitsValue(a) <= DigitsValue(b)
               /\ IsAllDigits(a) /\ IsAllDigits(b) /\ DigitsValue(a) = DigitsValue(b)
                    => TextLess(a, b)
               /\ ~IsAllDigits(a) /\ ~IsAllDigits(b) => TextLess(a, b)

----------------------------------------------------------------------------
(* C24: in every state the create-incident and update-incident requests      *)
(* reach, an incident whose status is resolved has a resolvedAt that is not  *)
(* null.                                                                    *)
C24_ResolvedHasResolvedAt ==
    \A i \in incidents : i.status = "resolved" => i.resolvedAt /= NoTime

\* a resolved incident next to one that is not, after an answered PATCH
C24_Witness ==
    /\ http.code = 200
    /\ \E i, j \in incidents :
         /\ i.status = "resolved" /\ i.resolvedAt /= NoTime
         /\ j.status = "in_progress" /\ j.resolvedAt = NoTime

----------------------------------------------------------------------------
\* this step is a call of createIncident or updateIncident from its route
IncidentCall ==
    \/ \E form \in FleetForms : PostIncidents(form)
    \/ PostIncidentsNext
    \/ \E id \in IncidentIds, u \in FleetUpdates : PatchIncident(id, u)

(* C25: after any sequence of createBus, deleteBus, createIncident and       *)
(* updateIncident calls, every bus has exactly one row for each of ch1, ch2, *)
(* ch3 and ch4 and no other row, and every row is the row of a bus that      *)
(* exists; a createIncident or updateIncident call inserts no row and        *)
(* deletes none.                                                            *)
C25_FourRowsPerBus ==
    /\ [](/\ \A b \in buses :
              /\ Cardinality({s \in equipmentStatus : s.busId = b.id}) = 4
              /\ \A c \in {"ch1", "ch2", "ch3", "ch4"} :
                   Cardinality({s \in equipmentStatus :
                                  s.busId = b.id /\ s.cameraChannel = c}) = 1
          /\ \A s \in equipmentStatus : \E b \in buses : b.id = s.busId)
    /\ [][IncidentCall =>
            /\ {s.id : s \in equipmentStatus'} = {s.id : s \in equipmentStatus}
            /\ Cardinality(equipmentStatus') = Cardinality(equipmentStatus)]_vars

\* the first bus was deleted with its rows; the second has its four rows, one
\* of them faulty, and an incident is stored for a bus that has no row
C25_Witness ==
    /\ Ready
    /\ \E b \in buses :
         /\ b.id = 2
         /\ \A c \in buses : c = b
         /\ Cardinality({s \in equipmentStatus : s.busId = b.id}) = 4
         /\ \E s \in equipmentStatus : s.busId = b.id /\ s.status = "faulty"
    /\ \E i \in incidents :
         /\ i.equipmentType = "camera" /\ i.cameraChannel /= NULL
         /\ \A s \in equipmentStatus : s.busId /= i.busId

----------------------------------------------------------------------------
(* C26: when every call runs to completion before the next starts, a row     *)
(* whose status is misaligned or faulty names in lastIncidentId a stored     *)
(* camera incident of its bus and channel whose resolvedAt is null, and its  *)
(* status is faulty when that incident's type is faulty and misaligned       *)
(* otherwise.                                                               *)
C26_DegradedRowNamesOpenIncident ==
    \A s \in equipmentStatus :
      s.status \in {"misaligned", "faulty"} =>
        \E i \in incidents :
          /\ i.id = s.lastIncidentId
          /\ i.equipmentType = "camera"
          /\ i.busId = s.busId /\ i.cameraChannel = s.cameraChannel
          /\ i.resolvedAt = NoTime
          /\ s.status = IF i.incidentType = "faulty" THEN "faulty" ELSE "misaligned"

\* the first incident of the channel was resolved, the second, of the other
\* type, is open and is the one the row names
C26_Witness ==
    /\ Ready
    /\ \E s \in equipmentStatus, i, j \in incidents :
         /\ s.status = "misaligned" /\ s.lastIncidentId = j.id
         /\ i.id < j.id /\ i.busId = j.busId /\ i.cameraChannel = j.cameraChannel
         /\ i.incidentType = "faulty" /\ i.status = "resolved"
         /\ j.incidentType = "misaligned" /\ j.resolvedAt = NoTime

----------------------------------------------------------------------------
\* the slot holds an answered request that created an incident on the channel
CreatedOn(slot, busId, channel) ==
    /\ Calls[slot].kind = "createIncident" /\ Calls[slot].pc = "done"
    /\ Calls[slot].incident.busId = busId
    /\ Calls[slot].incident.cameraChannel = channel

\* the slot holds an answered request that updated an incident of the channel
\* with status = resolved
ResolvedOn(slot, busId, channel) ==
    /\ Calls[slot].kind = "updateIncident" /\ Calls[slot].pc = "done"
    /\ Calls[slot].updates.status = "resolved"
    /\ \E current \in Calls[slot].current :
         current.busId = busId /\ current.cameraChannel = channel

(* C27: once a createIncident request and an updateIncident request with     *)
(* status = resolved on the same bus and channel, served at the same time,   *)
(* have both been answered, the row of the channel is not misaligned or      *)
(* faulty while the incident its lastIncidentId names is resolved.           *)
C27_NoDegradedRowOnResolved ==
    \A a, b \in Slots, s \in equipmentStatus :
      /\ CreatedOn(a, s.busId, s.cameraChannel)
      /\ ResolvedOn(b, s.busId, s.cameraChannel)
      /\ s.status \in {"misaligned", "faulty"}
      => ~\E i \in incidents : i.id = s.lastIncidentId /\ i.status = "resolved"

----------------------------------------------------------------------------
(* C28: while two updateIncident requests with status = resolved for the     *)
(* same incident are served at the same time, no step gives the incident a   *)
(* resolvedAt other than the one it has: the request that writes second      *)
(* does not overwrite the resolvedAt the first wrote.                        *)
C28_SecondKeepsResolvedAt ==
    [][\A a, b \in Slots :
         /\ a /= b
         /\ Calls[a].kind = "updateIncident" /\ Calls[b].kind = "updateIncident"
         /\ Calls[a].updates.status = "resolved" /\ Calls[b].updates.status = "resolved"
         /\ Calls[a].id = Calls[b].id
         => \A i \in incidents, j \in incidents' :
              i.id = Calls[a].id /\ j.id = i.id /\ i.resolvedAt /= NoTime
                => j.resolvedAt = i.resolvedAt]_vars

----------------------------------------------------------------------------
(* C29: after any sequence of createBus, deleteBus and create-incident       *)
(* requests, the busId of every stored incident is the id of a stored bus:   *)
(* no incident is created for a bus id that does not exist, and none         *)
(* outlives its bus.                                                        *)
C29_IncidentsNameExistingBus ==
    \A i \in incidents : \E b \in buses : b.id = i.busId

----------------------------------------------------------------------------
\* the Mondays the page can show
PageMondays == {startOfWeek(currentDate, 1) : currentDate \in PageDates}

(* C30: for every Monday M, the answer of GET /api/reports/weekly to the     *)
(* week string the weekly-report page builds from M is the report of the     *)
(* Monday-to-Sunday week that starts at M.                                  *)
C30_WeekParamRoundTrip ==
    \A M \in PageMondays :
      ("week" \in DOMAIN http /\ http.week = weekParam(M)) => http.report.weekStart = M

====
